---- MODULE Spec2Model ----
(***************************************************************************)
(* The codoc registry (src/codoc.go) and its entry point from extraction   *)
(* (RegisterPath, src/unnamed/part_000).                                   *)
(*                                                                         *)
(* Go strings are sequences of one-character strings, so that              *)
(* concatenation (prefix + name) and strings.LastIndex are computed and    *)
(* not assumed.  Go maps and slices are reference types: a Package, a      *)
(* Struct and a Function hold references into mapMem and arrMem, and       *)
(* copying the struct value copies the reference, not the contents.        *)
(* Goroutines are the elements of Threads; every Register / Get* call is   *)
(* split at the points where it touches the RWMutex mu.                    *)
(*                                                                         *)
(* Extraction (codocgen.FromPath, src/unnamed/part_000, with the filter    *)
(* chain of src/codocgen/config.go) works on conf, the config the options  *)
(* build, and pkgdoc, the documented declarations go/doc hands it; out is  *)
(* the Package it returns and probe the answer of a direct filterFunc /    *)
(* filterStruct call.                                                      *)
(***************************************************************************)
EXTENDS Integers, Sequences, FiniteSets, TLC

VARIABLES pkgs, funcs, strucsts, mu, mapMem, arrMem, pc, arg, res, started, nregs, nmuts,
          conf, opts, pkgdoc, out, probe

vars == <<pkgs, funcs, strucsts, mu, mapMem, arrMem, pc, arg, res, started, nregs, nmuts,
          conf, opts, pkgdoc, out, probe>>

\* The registry and its callers.
regvars == <<pkgs, funcs, strucsts, mu, mapMem, arrMem, pc, arg, res, started, nregs, nmuts>>

\* Extraction and its filter chain.
genvars == <<conf, opts, pkgdoc, out, probe>>

registry == <<pkgs, funcs, strucsts>>

\* ------------------------------------------------------------------ bounds

\* Register calls (direct or through RegisterPath) started in one behaviour.
MaxRegs == 2

\* Mutations a caller performs on values it got back or handed in (SpecAlias).
MaxMuts == 1

\* The goroutines: two make any call (Spec, SpecAlias); all three run the
\* calls of the concurrency test (SpecConc).
Threads == {"t1", "t2", "t3"}

Workers == {"t1", "t2"}

\* ----------------------------------------------------------------- strings

sMain == <<"m", "a", "i", "n">>

sDot == <<".">>

sA == <<"a">>

sAB == <<"a", ".", "b">>

sB == <<"b">>

sF == <<"f">>

sS == <<"s">>

sT == <<"t">>

sX == <<"x">>

\* strings.LastIndex(id, "."): the 0-based index of the last ".", or -1.
RECURSIVE LastIndexFrom(_, _)
LastIndexFrom(id, i) ==
    IF i = 0 THEN -1
    ELSE IF id[i] = "." THEN i - 1
    ELSE LastIndexFrom(id, i - 1)

LastIndex_first(id) ==
    IF \E i \in 1..Len(id) : id[i] = "."
    THEN (CHOOSE i \in 1..Len(id) : id[i] = "." /\ \A j \in 1..(i - 1) : id[j] # ".") - 1
    ELSE -1

LastIndex(id) == LastIndexFrom(id, Len(id))

\* id[lo:hi] of Go, 0-based and half open; out-of-range bounds panic.
SliceOK(id, lo, hi) == 0 <= lo /\ lo <= hi /\ hi <= Len(id)

Slice(id, lo, hi) == SubSeq(id, lo + 1, hi)

\* ------------------------------------------------------------ the doc model

NilRef == "nil"

MkFunction(name, doc, args, results) ==
    [Name |-> name, Doc |-> doc, Args |-> args, Results |-> results]

MkField(name, doc, comment) == [Name |-> name, Doc |-> doc, Comment |-> comment]

MkStruct(name, doc, fields, methods) ==
    [Name |-> name, Doc |-> doc, Fields |-> fields, Methods |-> methods]

MkPackage(id, name, doc, functions, structs) ==
    [ID |-> id, Name |-> name, Doc |-> doc, Functions |-> functions, Structs |-> structs]

\* The packages callers register.  Every mapping is keyed by the entity's own
\* name and local names are Go identifiers (no "."), as the data model says;
\* package identifiers are opaque and may contain "." (import paths do).
\*   P1  "a"    : func f(x, y), struct b { field x; methods f, s }
\*   P2  "a"    : a later version of "a" with no function and no struct
\*   P3  "a.b"  : short name "main": func f, struct t
\*   P4  "a.b"  : func f, struct s (no methods)
P1 == MkPackage(sA, <<"p">>, "doc a v1", "P1.Functions", "P1.Structs")

P2 == MkPackage(sA, <<"p">>, "doc a v2", NilRef, NilRef)

P3 == MkPackage(sAB, sMain, "doc main", "P3.Functions", "P3.Structs")

P4 == MkPackage(sAB, <<"q">>, "doc a.b", "P4.Functions", "P4.Structs")

Universe == {P1, P2, P3, P4}

InitMapMem ==
    [r \in {NilRef, "P1.Functions", "P1.Structs", "P1.b.Fields", "P1.b.Methods",
            "P3.Functions", "P3.Structs", "P4.Functions", "P4.Structs"} |->
        CASE r = "P1.Functions" -> (sF :> MkFunction(sF, "a.f", "P1.f.Args", NilRef))
          [] r = "P1.Structs" -> (sB :> MkStruct(sB, "a.b", "P1.b.Fields", "P1.b.Methods"))
          [] r = "P1.b.Fields" -> (sX :> MkField(sX, "doc x", "comment x"))
          [] r = "P1.b.Methods" -> (sF :> MkFunction(sF, "a.b.f", NilRef, NilRef))
                                   @@ (sS :> MkFunction(sS, "a.b.s", NilRef, NilRef))
          [] r = "P3.Functions" -> (sF :> MkFunction(sF, "main.f", NilRef, NilRef))
          [] r = "P3.Structs" -> (sT :> MkStruct(sT, "main.t", NilRef, NilRef))
          [] r = "P4.Functions" -> (sF :> MkFunction(sF, "ab.f", NilRef, NilRef))
          [] r = "P4.Structs" -> (sS :> MkStruct(sS, "ab.s", NilRef, NilRef))
          [] OTHER -> <<>>]

InitArrMem ==
    [r \in {NilRef, "P1.f.Args"} |-> IF r = NilRef THEN <<>> ELSE <<"x", "y">>]

\* The identifiers lookups are made with: registered and unregistered ones,
\* with no ".", ending in ".", and empty.
PackageIDs == {sMain, sA, sAB, sX, <<>>, sA \o sDot}

StructIDs == {sAB, sAB \o sDot \o sS, sMain \o sDot \o sT, sX, <<>>, sA \o sDot}

FunctionIDs ==
    {sA \o sDot \o sF, sAB \o sDot \o sF, sAB \o sDot \o sS, sMain \o sDot \o sF,
     sAB, sX, <<>>, sA \o sDot}

QueryIDs == PackageIDs \cup StructIDs \cup FunctionIDs

\* What a value looks like to its holder: references followed to the contents.
DeepFunction(fn) ==
    [Name |-> fn.Name, Doc |-> fn.Doc, Args |-> arrMem[fn.Args], Results |-> arrMem[fn.Results]]

DeepFunctions(ref) == [k \in DOMAIN mapMem[ref] |-> DeepFunction(mapMem[ref][k])]

DeepStruct(st) ==
    [Name |-> st.Name, Doc |-> st.Doc, Fields |-> mapMem[st.Fields],
     Methods |-> DeepFunctions(st.Methods)]

DeepStructs(ref) == [k \in DOMAIN mapMem[ref] |-> DeepStruct(mapMem[ref][k])]

DeepPackage(p) ==
    [ID |-> p.ID, Name |-> p.Name, Doc |-> p.Doc,
     Functions |-> DeepFunctions(p.Functions), Structs |-> DeepStructs(p.Structs)]

\* ------------------------------------------------------- results of a call

None == [kind |-> "none"]

Nil == [kind |-> "nil"]

Ok == [kind |-> "ok"]

Panic == [kind |-> "panic"]

Ptr(v) == [kind |-> "ptr", val |-> v]

Err(e) == [kind |-> "err", err |-> e]

NoArg == <<>>

\* ------------------------------------------------------------ sync.RWMutex
\* mu.w        the goroutine that holds the writer mutex (it has announced
\*             itself to the readers, and writes once they have drained)
\* mu.readers  read locks held or granted
\* mu.blocked  goroutines parked in RLock behind the announced writer
NoThread == "none"

InitMu == [w |-> NoThread, readers |-> 0, blocked |-> {}]

RLockGranted_always(m) == TRUE

\* RLock succeeds at once unless a writer is pending or active.
RLockGranted(m) == m.w = NoThread

RLock(m, t) ==
    IF RLockGranted(m) THEN [m EXCEPT !.readers = @ + 1]
    ELSE [m EXCEPT !.blocked = @ \cup {t}]

RUnlock(m) == [m EXCEPT !.readers = @ - 1]

\* Unlock hands the lock to every reader parked behind the writer.
Unlock(m) == [w |-> NoThread, readers |-> Cardinality(m.blocked), blocked |-> {}]

\* Where a parked reader resumes once its RLock is granted.
Woken(p) ==
    CASE p = "gp_blocked" -> "gp_read"
      [] p = "gs_blocked" -> "gs_read"
      [] p = "gf_blocked" -> "gf_p1"
      [] p = "gf_blocked2" -> "gf_p2"
      [] OTHER -> p

\* ---------------------------------------------------------------- Register

effectiveID_always_ID(pkg) == pkg.ID

effectiveID(pkg) == IF pkg.Name = sMain THEN sMain ELSE pkg.ID

Put(m, k, v) == [x \in DOMAIN m \cup {k} |-> IF x = k THEN v ELSE m[x]]

PkgsAfter_effective_as_ID(ps, pkg) ==
    Put(ps, effectiveID(pkg), [pkg EXCEPT !.ID = effectiveID(pkg)])

\* pkgs[id] = pkg
PkgsAfter(ps, pkg) == Put(ps, effectiveID(pkg), pkg)

\* The maps a "for _, e := range entries { m[prefix+e.Name] = e }" loop can
\* leave: entries with the same Name land on one key, and the iteration order
\* of a Go map decides which of them stays.
FlattenedAfter_replacing(m, prefix, entries) ==
    LET new == {prefix \o entries[n].Name : n \in DOMAIN entries}
    IN  {g \in [new -> {entries[n] : n \in DOMAIN entries}] :
            \A k \in new : prefix \o g[k].Name = k}

FlattenedAfter_unprefixed(m, prefix, entries) ==
    {[k \in DOMAIN m \cup {entries[n].Name : n \in DOMAIN entries} |->
         IF \E n \in DOMAIN entries : entries[n].Name = k
         THEN CHOOSE e \in {entries[n] : n \in DOMAIN entries} : e.Name = k
         ELSE m[k]]}

FlattenedAfter(m, prefix, entries) ==
    LET new == {prefix \o entries[n].Name : n \in DOMAIN entries}
        vals == {entries[n] : n \in DOMAIN entries} \cup {m[k] : k \in DOMAIN m}
    IN  {g \in [DOMAIN m \cup new -> vals] :
            \A k \in DOMAIN g :
                IF k \in new THEN \E n \in DOMAIN entries :
                                      prefix \o entries[n].Name = k /\ g[k] = entries[n]
                ELSE g[k] = m[k]}

\* ----------------------------------------------------------------- lookups

GetPackageRead(ps, id) == IF id \in DOMAIN ps THEN Ptr(ps[id]) ELSE Nil

GetStructRead(ss, id) == IF id \in DOMAIN ss THEN Ptr(ss[id]) ELSE Nil

GetFunctionSplit_unguarded(id) ==
    LET i == LastIndex(id)
    IN  IF SliceOK(id, 0, i) /\ SliceOK(id, i + 1, Len(id))
        THEN [kind |-> "split", structID |-> Slice(id, 0, i),
              methodname |-> Slice(id, i + 1, Len(id))]
        ELSE Panic

\* lines 97-104: nil without a ".", else structID and methodname.
GetFunctionSplit(id) ==
    LET i == LastIndex(id)
    IN  IF i = -1 THEN Nil
        ELSE IF SliceOK(id, 0, i) /\ SliceOK(id, i + 1, Len(id))
        THEN [kind |-> "split", structID |-> Slice(id, 0, i),
              methodname |-> Slice(id, i + 1, Len(id))]
        ELSE Panic

\* lines 92-104: the flattened function map first, then the split.
GetFunctionPhase1(fs, id) ==
    IF id \in DOMAIN fs THEN Ptr(fs[id]) ELSE GetFunctionSplit(id)

\* lines 107-118, given what GetStruct(structID) returned.
GetFunctionPhase2(st, methodname) ==
    IF st.kind # "ptr" THEN Nil
    ELSE IF methodname \in DOMAIN mapMem[st.val.Methods]
    THEN Ptr(mapMem[st.val.Methods][methodname])
    ELSE Nil

\* ------------------------------------------------- codocgen.RegisterPath
\* A location is what the front end finds there: whether packages.Load
\* fails, how many packages it lists and with how many errors, whether
\* parser.ParseDir fails and how many packages it parses, and the Package the
\* declarations of the location amount to.
MkLoc(loadErr, nInfos, nInfoErrors, parseErr, nPkgs, pkg) ==
    [loadErr |-> loadErr, nInfos |-> nInfos, nInfoErrors |-> nInfoErrors,
     parseErr |-> parseErr, nPkgs |-> nPkgs, pkg |-> pkg]

Locations ==
    {MkLoc(FALSE, 1, 0, FALSE, 1, P1), MkLoc(FALSE, 1, 0, FALSE, 1, P3),
     MkLoc(TRUE, 0, 0, FALSE, 0, P1), MkLoc(FALSE, 0, 0, FALSE, 0, P1),
     MkLoc(FALSE, 2, 0, FALSE, 2, P1), MkLoc(FALSE, 1, 1, TRUE, 0, P1),
     MkLoc(FALSE, 1, 0, TRUE, 1, P1), MkLoc(FALSE, 1, 0, FALSE, 0, P1),
     MkLoc(FALSE, 1, 0, FALSE, 2, P4)}

getInfo(loc) ==
    IF loc.loadErr THEN Err("load package")
    ELSE IF loc.nInfos = 0 THEN Err("no packages")
    ELSE IF loc.nInfos > 1 THEN Err("multiple packages")
    ELSE IF loc.nInfoErrors > 0 THEN Err("package contains errors")
    ELSE Ok

FromPath_no_multiple_check(loc) ==
    IF getInfo(loc).kind = "err" THEN getInfo(loc)
    ELSE IF loc.parseErr THEN Err("parse package")
    ELSE IF loc.nPkgs = 0 THEN Err("no packages")
    ELSE Ptr(loc.pkg)

FromPath(loc) ==
    IF getInfo(loc).kind = "err" THEN getInfo(loc)
    ELSE IF loc.parseErr THEN Err("parse package")
    ELSE IF loc.nPkgs = 0 THEN Err("no packages")
    ELSE IF loc.nPkgs > 1 THEN Err("multiple packages")
    ELSE Ptr(loc.pkg)

\* The location extraction fails for.
Fails(loc) ==
    \/ loc.loadErr
    \/ loc.nInfos # 1
    \/ loc.nInfoErrors > 0
    \/ loc.parseErr
    \/ loc.nPkgs # 1

\* ------------------------------------------------------------------ state

Init ==
    /\ pkgs = <<>>
    /\ funcs = <<>>
    /\ strucsts = <<>>
    /\ mu = InitMu
    /\ mapMem = InitMapMem
    /\ arrMem = InitArrMem
    /\ pc = [t \in Threads |-> "idle"]
    /\ arg = [t \in Threads |-> NoArg]
    /\ res = [t \in Threads |-> None]
    /\ started = {}
    /\ nregs = 0
    /\ nmuts = 0
    /\ conf = [funcFilter |-> <<>>, structFilter |-> <<>>]
    /\ opts = <<>>
    /\ pkgdoc = None
    /\ out = None
    /\ probe = None

\* The read lock is held (or being re-acquired) by t.
ReaderHolds(t) == pc[t] \in {"gp_read", "gs_read", "gf_p1", "gf_p2", "gf_blocked2"}

\* t has written part of a Register update.
MidUpdate(t) == pc[t] \in {"reg_funcs", "reg_structs"}

InCall(t) == pc[t] # "idle"

\* Register entered: mu.Lock() takes the writer mutex, then waits for the
\* readers to drain.
RegisterEnter(t, pkg, viaPath) ==
    /\ pc[t] = "idle"
    /\ nregs < MaxRegs
    /\ nregs' = nregs + 1
    /\ started' = started \cup {pkg}
    /\ arg' = [arg EXCEPT ![t] = [pkg |-> pkg, viaPath |-> viaPath]]
    /\ res' = [res EXCEPT ![t] = None]
    /\ IF mu.w = NoThread
       THEN /\ mu' = [mu EXCEPT !.w = t]
            /\ pc' = [pc EXCEPT ![t] = IF mu.readers = 0 THEN "reg_pkgs" ELSE "reg_rwait"]
       ELSE /\ mu' = mu
            /\ pc' = [pc EXCEPT ![t] = "reg_wlock"]
    /\ UNCHANGED <<registry, mapMem, arrMem, nmuts, genvars>>

Register(t, pkg) == RegisterEnter(t, pkg, FALSE)

RegisterLockW(t) ==
    /\ pc[t] = "reg_wlock"
    /\ mu.w = NoThread
    /\ mu' = [mu EXCEPT !.w = t]
    /\ pc' = [pc EXCEPT ![t] = IF mu.readers = 0 THEN "reg_pkgs" ELSE "reg_rwait"]
    /\ UNCHANGED <<registry, mapMem, arrMem, arg, res, started, nregs, nmuts, genvars>>

RegisterLockR(t) ==
    /\ pc[t] = "reg_rwait"
    /\ mu.readers = 0
    /\ pc' = [pc EXCEPT ![t] = "reg_pkgs"]
    /\ UNCHANGED <<registry, mu, mapMem, arrMem, arg, res, started, nregs, nmuts, genvars>>

RegisterPkgs(t) ==
    /\ pc[t] = "reg_pkgs"
    /\ pkgs' = PkgsAfter(pkgs, arg[t].pkg)
    /\ pc' = [pc EXCEPT ![t] = "reg_funcs"]
    /\ UNCHANGED <<funcs, strucsts, mu, mapMem, arrMem, arg, res, started, nregs, nmuts, genvars>>

RegisterFuncs(t) ==
    /\ pc[t] = "reg_funcs"
    /\ funcs' \in FlattenedAfter(funcs, effectiveID(arg[t].pkg) \o sDot,
                                 mapMem[arg[t].pkg.Functions])
    /\ pc' = [pc EXCEPT ![t] = "reg_structs"]
    /\ UNCHANGED <<pkgs, strucsts, mu, mapMem, arrMem, arg, res, started, nregs, nmuts, genvars>>

\* The struct loop, the deferred mu.Unlock() and the return.
RegisterStructs(t) ==
    /\ pc[t] = "reg_structs"
    /\ strucsts' \in FlattenedAfter(strucsts, effectiveID(arg[t].pkg) \o sDot,
                                    mapMem[arg[t].pkg.Structs])
    /\ mu' = Unlock(mu)
    /\ pc' = [u \in Threads |->
                IF u = t THEN "idle"
                ELSE IF u \in mu.blocked THEN Woken(pc[u]) ELSE pc[u]]
    /\ res' = [res EXCEPT ![t] = IF arg[t].viaPath THEN Ok ELSE None]
    /\ arg' = [arg EXCEPT ![t] = NoArg]
    /\ UNCHANGED <<pkgs, funcs, mapMem, arrMem, started, nregs, nmuts, genvars>>

\* A lookup entered: mu.RLock().
ReadEnter(t, id, granted, blocked) ==
    /\ pc[t] = "idle"
    /\ arg' = [arg EXCEPT ![t] = id]
    /\ res' = [res EXCEPT ![t] = None]
    /\ mu' = RLock(mu, t)
    /\ pc' = [pc EXCEPT ![t] = IF RLockGranted(mu) THEN granted ELSE blocked]
    /\ UNCHANGED <<registry, mapMem, arrMem, started, nregs, nmuts, genvars>>

\* A lookup returns r: the deferred RUnlock()s, then the return.
ReadReturn(t, r, m) ==
    /\ res' = [res EXCEPT ![t] = r]
    /\ mu' = m
    /\ pc' = [pc EXCEPT ![t] = "idle"]
    /\ arg' = [arg EXCEPT ![t] = NoArg]
    /\ UNCHANGED <<registry, mapMem, arrMem, started, nregs, nmuts, genvars>>

GetPackage(t, id) == ReadEnter(t, id, "gp_read", "gp_blocked")

GetPackageReturn(t) ==
    /\ pc[t] = "gp_read"
    /\ ReadReturn(t, GetPackageRead(pkgs, arg[t]), RUnlock(mu))

GetStruct(t, id) == ReadEnter(t, id, "gs_read", "gs_blocked")

GetStructReturn(t) ==
    /\ pc[t] = "gs_read"
    /\ ReadReturn(t, GetStructRead(strucsts, arg[t]), RUnlock(mu))

GetFunction(t, id) == ReadEnter(t, id, "gf_p1", "gf_blocked")

\* Phase 1 under the read lock; on a miss with a "." in id, GetStruct is
\* called and takes the read lock a second time.
GetFunctionP1(t) ==
    /\ pc[t] = "gf_p1"
    /\ IF GetFunctionPhase1(funcs, arg[t]).kind = "split"
       THEN /\ mu' = RLock(mu, t)
            /\ pc' = [pc EXCEPT ![t] = IF RLockGranted(mu) THEN "gf_p2" ELSE "gf_blocked2"]
            /\ UNCHANGED <<registry, mapMem, arrMem, arg, res, started, nregs, nmuts, genvars>>
       ELSE ReadReturn(t, GetFunctionPhase1(funcs, arg[t]), RUnlock(mu))

\* GetStruct's read and RUnlock, the method lookup, GetFunction's RUnlock.
GetFunctionP2(t) ==
    /\ pc[t] = "gf_p2"
    /\ ReadReturn(t,
                  GetFunctionPhase2(GetStructRead(strucsts, GetFunctionSplit(arg[t]).structID),
                                    GetFunctionSplit(arg[t]).methodname),
                  RUnlock(RUnlock(mu)))

\* FromPath, then Register unless it failed.
RegisterPath(t, loc) ==
    IF FromPath(loc).kind = "err"
    THEN /\ pc[t] = "idle"
         /\ res' = [res EXCEPT ![t] = FromPath(loc)]
         /\ UNCHANGED <<registry, mu, mapMem, arrMem, pc, arg, started, nregs, nmuts, genvars>>
    ELSE RegisterEnter(t, FromPath(loc).val, TRUE)

\* The steps of a call in progress.
Step(t) ==
    \/ RegisterLockW(t)
    \/ RegisterLockR(t)
    \/ RegisterPkgs(t)
    \/ RegisterFuncs(t)
    \/ RegisterStructs(t)
    \/ GetPackageReturn(t)
    \/ GetStructReturn(t)
    \/ GetFunctionP1(t)
    \/ GetFunctionP2(t)

Call(t) ==
    \/ \E pkg \in Universe : Register(t, pkg)
    \/ \E loc \in Locations : RegisterPath(t, loc)
    \/ \E id \in PackageIDs : GetPackage(t, id)
    \/ \E id \in StructIDs : GetStruct(t, id)
    \/ \E id \in FunctionIDs : GetFunction(t, id)

Next == \E t \in Workers : Call(t) \/ Step(t)

Spec == Init /\ [][Next]_vars

\* Three goroutines: writers registering packages with distinct effective
\* identifiers, next to readers looking them and their functions up.
CallConc(t) ==
    \/ \E pkg \in {P1, P3, P4} : Register(t, pkg)
    \/ \E id \in {sA, sMain} : GetPackage(t, id)
    \/ \E id \in {sAB} : GetStruct(t, id)
    \/ \E id \in {sA \o sDot \o sF, sAB \o sDot \o sF, sMain \o sDot \o sF} :
          GetFunction(t, id)

NextConc == \E t \in Threads : CallConc(t) \/ Step(t)

SpecConc == Init /\ [][NextConc]_vars

\* ------------------------------------- what a caller does with a value
\* GetPackage, GetStruct and GetFunction return a pointer to a copy of the
\* stored struct value (pkg, st and fn are locals); Register receives its
\* Package by value.  The copy holds the same map and slice references as
\* the stored value.

HoldsValue(t) == pc[t] = "idle" /\ res[t].kind = "ptr" /\ nmuts < MaxMuts

MapFields == {"Functions", "Structs", "Fields", "Methods"}

Removed(m, k) == [x \in DOMAIN m \ {k} |-> m[x]]

\* p.Doc = "changed" on the returned copy.
MutateCopy(t) ==
    /\ HoldsValue(t)
    /\ res' = [res EXCEPT ![t].val.Doc = "changed"]
    /\ nmuts' = nmuts + 1
    /\ UNCHANGED <<registry, mu, mapMem, arrMem, pc, arg, started, nregs, genvars>>

\* delete(v.M, k), v.M[k] = e or v.M[z] = e on a mapping M of the copy v.
MutateMap(t) ==
    /\ HoldsValue(t)
    /\ \E fld \in MapFields \cap DOMAIN res[t].val :
          /\ res[t].val[fld] # NilRef
          /\ \E k \in DOMAIN mapMem[res[t].val[fld]] :
                \/ mapMem' = [mapMem EXCEPT ![res[t].val[fld]] = Removed(@, k)]
                \/ mapMem' = [mapMem EXCEPT ![res[t].val[fld]][k].Doc = "changed"]
                \/ mapMem' = [mapMem EXCEPT ![res[t].val[fld]] =
                                 Put(@, <<"z">>, [@[k] EXCEPT !.Name = <<"z">>])]
    /\ nmuts' = nmuts + 1
    /\ UNCHANGED <<registry, mu, arrMem, pc, arg, res, started, nregs, genvars>>

\* fn.Args[0] = "z" on a returned Function.
MutateSlice(t) ==
    /\ HoldsValue(t)
    /\ "Args" \in DOMAIN res[t].val
    /\ res[t].val.Args # NilRef
    /\ arrMem' = [arrMem EXCEPT ![res[t].val.Args][1] = "z"]
    /\ nmuts' = nmuts + 1
    /\ UNCHANGED <<registry, mu, mapMem, pc, arg, res, started, nregs, genvars>>

\* delete(p.Functions, k) on the Package p the caller handed to Register,
\* after Register has returned.
MutateArgument(t) ==
    /\ pc[t] = "idle"
    /\ nmuts < MaxMuts
    /\ \E p \in started :
          /\ \A u \in Threads : pc[u] \in {"idle", "gp_read", "gs_read", "gf_p1", "gf_p2",
                                          "gp_blocked", "gs_blocked", "gf_blocked",
                                          "gf_blocked2"}
          /\ p.Functions # NilRef
          /\ \E k \in DOMAIN mapMem[p.Functions] :
                mapMem' = [mapMem EXCEPT ![p.Functions] = Removed(@, k)]
    /\ nmuts' = nmuts + 1
    /\ UNCHANGED <<registry, mu, arrMem, pc, arg, res, started, nregs, genvars>>

Mutate(t) ==
    \/ MutateCopy(t)
    \/ MutateMap(t)
    \/ MutateSlice(t)
    \/ MutateArgument(t)

NextAlias == \E t \in Workers : Call(t) \/ Step(t) \/ Mutate(t)

SpecAlias == Init /\ [][NextAlias]_vars

\* ---------------------------------------------- codocgen: the filter chain
\* Documentation text and names are sequences of characters; the characters
\* that matter are the white space strings.TrimSpace cuts, the upper-case
\* letters unicode.IsUpper knows, and a byte that is not valid UTF-8.

\* Options applied to one config.
MaxOpts == 2

WhiteSpace == {" ", "\n", "\t"}

UpperRunes == {"F", "G", "H", "K", "M", "N", "T"}

InvalidByte == "xFF"

RuneError == "uFFFD"

RECURSIVE TrimLeft(_)
TrimLeft(s) ==
    IF s # <<>> /\ Head(s) \in WhiteSpace THEN TrimLeft(Tail(s)) ELSE s

RECURSIVE TrimRight(_)
TrimRight(s) ==
    IF s # <<>> /\ s[Len(s)] \in WhiteSpace
    THEN TrimRight(SubSeq(s, 1, Len(s) - 1))
    ELSE s

\* strings.TrimSpace
TrimSpace(s) == TrimRight(TrimLeft(s))

\* utf8.DecodeRuneInString, the rune it returns: RuneError for the empty
\* string and for an invalid encoding.
DecodeRuneInString(s) ==
    IF s = <<>> THEN RuneError
    ELSE IF Head(s) = InvalidByte THEN RuneError
    ELSE Head(s)

IsUpper_or_underscore(r) == r \in UpperRunes \cup {"_"}

\* unicode.IsUpper
IsUpper(r) == r \in UpperRunes

\* The predicates a chain holds: the closures of Exported and WithDoc, and
\* the closures callers hand to FilterFuncs and FilterStructs (one that
\* compares the Name, as the tests', and one that rejects everything).
ExportedPred == [kind |-> "exported"]

WithDocPred == [kind |-> "withDoc"]

NameIs(n) == [kind |-> "nameIs", name |-> n]

Reject == [kind |-> "reject"]

UserPreds == {NameIs(<<"N">>), Reject}

\* f(fn) / f(st): the closure f called on an entity.
Pred(f, e) ==
    CASE f.kind = "exported" -> IsUpper(DecodeRuneInString(e.Name))
      [] f.kind = "withDoc" -> e.Doc # <<>>
      [] f.kind = "nameIs" -> e.Name = f.name
      [] f.kind = "reject" -> FALSE

\* The options: each is a func(*config), here the config it leaves.
FilterFuncs(fn, c) == [c EXCEPT !.funcFilter = Append(@, fn)]

FilterStructs(fn, c) == [c EXCEPT !.structFilter = Append(@, fn)]

Exported(c) ==
    [funcFilter |-> Append(c.funcFilter, ExportedPred),
     structFilter |-> Append(c.structFilter, ExportedPred)]

WithDoc(c) ==
    [funcFilter |-> Append(c.funcFilter, WithDocPred),
     structFilter |-> Append(c.structFilter, WithDocPred)]

OptFilterFuncs(fn) == [opt |-> "FilterFuncs", fn |-> fn]

OptFilterStructs(fn) == [opt |-> "FilterStructs", fn |-> fn]

OptExported == [opt |-> "Exported"]

OptWithDoc == [opt |-> "WithDoc"]

Options ==
    {OptFilterFuncs(fn) : fn \in UserPreds} \cup {OptFilterStructs(fn) : fn \in UserPreds}
        \cup {OptExported, OptWithDoc}

\* opt(conf)
ApplyOption(o, c) ==
    CASE o.opt = "FilterFuncs" -> FilterFuncs(o.fn, c)
      [] o.opt = "FilterStructs" -> FilterStructs(o.fn, c)
      [] o.opt = "Exported" -> Exported(c)
      [] o.opt = "WithDoc" -> WithDoc(c)

\* for _, f := range filter { if !f(e) { return false } }; return true
RECURSIVE filterLoop(_, _, _)
filterLoop(filter, i, e) ==
    IF i > Len(filter) THEN TRUE
    ELSE IF ~Pred(filter[i], e) THEN FALSE
    ELSE filterLoop(filter, i + 1, e)

filterFunc_first_only(c, fn) ==
    c.funcFilter = <<>> \/ Pred(c.funcFilter[1], fn)

filterFunc(c, fn) == filterLoop(c.funcFilter, 1, fn)

filterStruct(c, st) == filterLoop(c.structFilter, 1, st)

\* The entities handed to filterFunc and filterStruct directly.
ProbeNames == {<<>>, <<"F">>, <<"f">>, <<"N">>, <<"_", "F">>, <<"1", "F">>, <<InvalidByte>>}

ProbeDocs == {<<>>, <<" ">>, <<"d">>, <<"\n", "d", " ">>}

GenFunction(name, doc, args, results) ==
    [Name |-> name, Doc |-> doc, Args |-> args, Results |-> results]

GenField(name, doc, comment) == [Name |-> name, Doc |-> doc, Comment |-> comment]

GenStruct(name, doc, fields, methods) ==
    [Name |-> name, Doc |-> doc, Fields |-> fields, Methods |-> methods]

FuncEntities ==
    {GenFunction(n, d, <<>>, <<>>) : n \in ProbeNames, d \in ProbeDocs}
        \cup {GenFunction(n, <<>>, <<sX>>, <<sX>>) : n \in {sF, <<"N">>}}

StructEntities ==
    {GenStruct(n, d, <<>>, <<>>) : n \in ProbeNames, d \in ProbeDocs}
        \cup {GenStruct(n, <<>>, [k \in {sX} |-> GenField(sX, <<"d">>, <<>>)], <<>>) :
                  n \in {sF, <<"N">>}}

\* ------------------------------------------------ codocgen: extraction
\* What go/doc hands FromPath (doc.New with doc.AllDecls): the package's
\* functions, and its types, each with the functions go/doc groups under it,
\* its methods and, for a struct type, its field declarations with their
\* leading and trailing comment text.
sY == <<"y">>

DocFunc(name, doc, params, results) ==
    [Name |-> name, Doc |-> doc, Params |-> params, Results |-> results]

DocField(names, doc, comment) == [Names |-> names, Doc |-> doc, Comment |-> comment]

DocType(name, doc, isStruct, fns, methods, fields) ==
    [Name |-> name, Doc |-> doc, IsStruct |-> isStruct,
     Funcs |-> fns, Methods |-> methods, Fields |-> fields]

DocPackage(id, name, doc, fns, types) ==
    [ID |-> id, Name |-> name, Doc |-> doc, Funcs |-> fns, Types |-> types]

RawDocs == {<<>>, <<" ">>, <<"d">>, <<" ", "d", "\n">>}

\* One field declaration: a named field, two names in one declaration, or an
\* embedded field (no names).
FieldDecls ==
    {DocField(ns, d, c) : ns \in {<<sX>>, <<sX, sY>>, <<>>}, d \in RawDocs, c \in RawDocs}

FieldLists ==
    {<<fd>> : fd \in FieldDecls}
        \cup {<<DocField(<<sX>>, d, <<>>), DocField(<<sY>>, <<>>, c)>> :
                 d \in RawDocs, c \in RawDocs}

\* A package with two functions; a documented struct type T with a
\* constructor-style function, methods and the fields fl; an undocumented
\* unexported struct type t with a function grouped under it; and a named
\* non-struct type K with a constructor-style function H.
Source(fl) ==
    DocPackage(sA, <<"p">>, <<" ", "d">>,
        <<DocFunc(<<"F">>, <<" ", "d", "\n">>, <<sX, <<>>>>, <<>>),
          DocFunc(sF, <<>>, <<>>, <<sY>>)>>,
        <<DocType(<<"T">>, <<"d", "\n">>, TRUE,
                  <<DocFunc(<<"N">>, <<"d">>, <<>>, <<>>),
                    DocFunc(<<"n">>, <<" ">>, <<>>, <<>>)>>,
                  <<DocFunc(<<"M">>, <<"d">>, <<>>, <<>>),
                    DocFunc(<<"m">>, <<>>, <<>>, <<>>)>>,
                  fl),
          DocType(sT, <<>>, TRUE,
                  <<DocFunc(<<"G">>, <<>>, <<>>, <<>>)>>, <<>>, <<>>),
          DocType(<<"K">>, <<"d">>, FALSE,
                  <<DocFunc(<<"H">>, <<"d">>, <<>>, <<>>)>>, <<>>, <<>>)>>)

Sources == {Source(fl) : fl \in FieldLists}

NonEmpty(name) == Len(name) > 0

getFunc(fn) ==
    GenFunction(fn.Name, TrimSpace(fn.Doc),
                SelectSeq(fn.Params, NonEmpty), SelectSeq(fn.Results, NonEmpty))

\* for _, fn := range list { fn := getFunc(fn); if conf.filterFunc(fn) { m[fn.Name] = fn } }
RECURSIVE funcsLoop(_, _, _, _)
funcsLoop(list, i, c, m) ==
    IF i > Len(list) THEN m
    ELSE funcsLoop(list, i + 1, c,
                   IF filterFunc(c, getFunc(list[i]))
                   THEN Put(m, getFunc(list[i]).Name, getFunc(list[i]))
                   ELSE m)

TypeFuncs_unfiltered(typ, c, m) ==
    [k \in DOMAIN m \cup {typ.Funcs[j].Name : j \in DOMAIN typ.Funcs} |->
        IF \E j \in DOMAIN typ.Funcs : typ.Funcs[j].Name = k
        THEN getFunc(typ.Funcs[CHOOSE j \in DOMAIN typ.Funcs : typ.Funcs[j].Name = k])
        ELSE m[k]]

\* The functions associated with the type (but not methods), added to funcs.
TypeFuncs(typ, c, m) == funcsLoop(typ.Funcs, 1, c, m)

\* The methods of the struct.
TypeMethods(typ, c) == funcsLoop(typ.Methods, 1, c, <<>>)

Documented_doc_only(doc, comment) == Len(doc) > 0

\* len(doc) > 0 || len(comment) > 0
Documented(doc, comment) == Len(doc) > 0 \/ Len(comment) > 0

\* for _, name := range field.Names { ... fields[name.Name] = codoc.Field{Doc, Comment} }
RECURSIVE namesLoop(_, _, _, _)
namesLoop(field, j, doc, m) ==
    IF j > Len(field.Names) THEN m
    ELSE namesLoop(field, j + 1, doc,
                   IF Documented(TrimSpace(field.Doc), TrimSpace(field.Comment))
                   THEN Put(m, field.Names[j],
                            [Name |-> <<>>,
                             Doc |-> TrimSpace(field.Doc),
                             Comment |-> TrimSpace(field.Comment)])
                   ELSE m)

\* for _, field := range st.Fields.List { ... }
RECURSIVE fieldsLoop(_, _, _)
fieldsLoop(list, i, m) ==
    IF i > Len(list) THEN m
    ELSE fieldsLoop(list, i + 1, namesLoop(list[i], 1, <<>>, m))

\* cst
TypeStruct(typ, c) ==
    GenStruct(typ.Name, TrimSpace(typ.Doc), fieldsLoop(typ.Fields, 1, <<>>), TypeMethods(typ, c))

\* for _, typ := range pkgdoc.Types { ... }: the funcs and structs it leaves.
RECURSIVE typesLoop(_, _, _, _)
typesLoop(types, i, c, acc) ==
    IF i > Len(types) THEN acc
    ELSE IF ~types[i].IsStruct THEN typesLoop(types, i + 1, c, acc)
    ELSE typesLoop(types, i + 1, c,
                   [funcs |-> TypeFuncs(types[i], c, acc.funcs),
                    structs |-> IF filterStruct(c, TypeStruct(types[i], c))
                                THEN Put(acc.structs, types[i].Name, TypeStruct(types[i], c))
                                ELSE acc.structs])

\* The Package FromPath returns for the declarations pd under the config c.
FromPathPackage(pd, c) ==
    LET acc == typesLoop(pd.Types, 1, c,
                         [funcs |-> funcsLoop(pd.Funcs, 1, c, <<>>), structs |-> <<>>])
    IN  [ID |-> pd.ID, Name |-> pd.Name, Doc |-> TrimSpace(pd.Doc),
         Functions |-> acc.funcs, Structs |-> acc.structs]

\* conf := &config{}; for _, opt := range opts { opt(conf) }
RECURSIVE ConfigOfFrom(_, _, _)
ConfigOfFrom(os, i, c) ==
    IF i > Len(os) THEN c ELSE ConfigOfFrom(os, i + 1, ApplyOption(os[i], c))

ConfigOf(os) == ConfigOfFrom(os, 1, [funcFilter |-> <<>>, structFilter |-> <<>>])

\* ------------------------------------------ codocgen: the steps of a run
\* opt(conf), for each option handed to FromPath or applied by a caller;
\* probe is the answer of the last call on conf as it is now.
Opt(o) ==
    /\ pkgdoc = None
    /\ Len(opts) < MaxOpts
    /\ conf' = ApplyOption(o, conf)
    /\ opts' = Append(opts, o)
    /\ probe' = None
    /\ UNCHANGED <<pkgdoc, out, regvars>>

\* c.filterFunc(fn), called on an entity directly.
CallFilterFunc(fn) ==
    /\ pkgdoc = None
    /\ probe' = [kind |-> "func", entity |-> fn, opts |-> opts, result |-> filterFunc(conf, fn)]
    /\ UNCHANGED <<conf, opts, pkgdoc, out, regvars>>

\* c.filterStruct(st), called on an entity directly.
CallFilterStruct(st) ==
    /\ pkgdoc = None
    /\ probe' = [kind |-> "struct", entity |-> st, opts |-> opts, result |-> filterStruct(conf, st)]
    /\ UNCHANGED <<conf, opts, pkgdoc, out, regvars>>

\* getInfo, parser.ParseDir and doc.New succeed and yield pd.  FromPath works
\* on a config of its own (conf := &config{}), one no caller probes.
Parse(pd) ==
    /\ pkgdoc = None
    /\ probe = None
    /\ pkgdoc' = pd
    /\ UNCHANGED <<conf, opts, out, probe, regvars>>

\* The rest of FromPath: the Package it returns.
Extract ==
    /\ pkgdoc # None
    /\ out = None
    /\ out' = Ptr(FromPathPackage(pkgdoc, conf))
    /\ UNCHANGED <<conf, opts, pkgdoc, probe, regvars>>

NextGen ==
    \/ \E o \in Options : Opt(o)
    \/ \E fn \in FuncEntities : CallFilterFunc(fn)
    \/ \E st \in StructEntities : CallFilterStruct(st)
    \/ \E pd \in Sources : Parse(pd)
    \/ Extract

SpecGen == Init /\ [][NextGen]_vars

\* ------------------------------------------- what a call made now returns

\* GetFunction run to its end on the maps fs and ss.
GetFunctionResult(fs, ss, id) ==
    IF GetFunctionPhase1(fs, id).kind = "split"
    THEN GetFunctionPhase2(GetStructRead(ss, GetFunctionPhase1(fs, id).structID),
                           GetFunctionPhase1(fs, id).methodname)
    ELSE GetFunctionPhase1(fs, id)

\* No Register has written part of its update: the states lookups run in.
Quiescent == \A t \in Threads : ~MidUpdate(t)

RegisterRunning(t) ==
    pc[t] \in {"reg_wlock", "reg_rwait", "reg_pkgs", "reg_funcs", "reg_structs"}

\* Register(pkg) was called and every such call has returned.
Registered(pkg) ==
    /\ pkg \in started
    /\ \A t \in Threads : RegisterRunning(t) => arg[t].pkg # pkg

\* The effective identifier as the claims define it: "main" for a package
\* whose short name is "main", its own identifier otherwise.
ClaimedID(pkg) == IF pkg.Name = sMain THEN sMain ELSE pkg.ID

FunctionsOf(pkg) == {mapMem[pkg.Functions][k] : k \in DOMAIN mapMem[pkg.Functions]}

StructsOf(pkg) == {mapMem[pkg.Structs][k] : k \in DOMAIN mapMem[pkg.Structs]}

MethodsOf(st) == {mapMem[st.Methods][k] : k \in DOMAIN mapMem[st.Methods]}

FuncKey(pkg, fn) == ClaimedID(pkg) \o sDot \o fn.Name

StructKey(pkg, st) == ClaimedID(pkg) \o sDot \o st.Name

MethodKey(pkg, st, m) == StructKey(pkg, st) \o sDot \o m.Name

\* ------------------------------------------------------------------ claims

\* C1 (round-trip identity): when Register(P) returns, GetPackage of P's
\* effective identifier yields a value equal to P in every field, the stored
\* ID being P.ID even for a "main" package; and what GetPackage yields for an
\* identifier changes only when a Register for that effective identifier
\* writes the package map.
C1_RoundTripStep ==
    /\ \A t \in Threads :
          RegisterStructs(t) =>
              /\ GetPackageRead(pkgs', ClaimedID(arg[t].pkg)).kind = "ptr"
              /\ GetPackageRead(pkgs', ClaimedID(arg[t].pkg)).val = arg[t].pkg
              /\ GetPackageRead(pkgs', ClaimedID(arg[t].pkg)).val.ID = arg[t].pkg.ID
              /\ DeepPackage(GetPackageRead(pkgs', ClaimedID(arg[t].pkg)).val)
                    = DeepPackage(arg[t].pkg)
    /\ \A id \in QueryIDs :
          GetPackageRead(pkgs', id) # GetPackageRead(pkgs, id) =>
              \E t \in Threads : RegisterPkgs(t) /\ ClaimedID(arg[t].pkg) = id

C1_RoundTrip == [][C1_RoundTripStep]_vars

\* GetPackage("main") has returned P3, which was registered as "a.b".
C1_Witness ==
    \E t \in Threads : pc[t] = "idle" /\ res[t] = Ptr(P3) /\ res[t].val.ID = sAB

\* C2 (main-package aliasing), as claimed: once a package P with short name
\* "main" and identifier X # "main" is registered and nothing was registered
\* under X, GetPackage("main") yields P, GetFunction / GetStruct of
\* "main.<name>" yield its functions and structs, and GetPackage(X) and
\* GetFunction(X.<name>) yield nothing.
IsMainUnder(pkg) ==
    /\ pkg.Name = sMain
    /\ pkg.ID # sMain
    /\ Registered(pkg)
    /\ \A q \in started : ClaimedID(q) # pkg.ID

C2_Positive(pkg) ==
    /\ GetPackageRead(pkgs, sMain) = Ptr(pkg)
    /\ \A fn \in FunctionsOf(pkg) :
          GetFunctionResult(funcs, strucsts, sMain \o sDot \o fn.Name) = Ptr(fn)
    /\ \A st \in StructsOf(pkg) :
          GetStructRead(strucsts, sMain \o sDot \o st.Name) = Ptr(st)
    /\ GetPackageRead(pkgs, pkg.ID) = Nil

AddressTaken(id) ==
    \E q \in started :
        \/ \E fn \in FunctionsOf(q) : FuncKey(q, fn) = id
        \/ \E st \in StructsOf(q) : \E m \in MethodsOf(st) : MethodKey(q, st, m) = id

C3_LastDot(id) ==
    CHOOSE i \in 1..Len(id) : id[i] = "." /\ \A j \in (i + 1)..Len(id) : id[j] # "."

C3_Head(id) == SubSeq(id, 1, C3_LastDot(id) - 1)

C3_Tail(id) == SubSeq(id, C3_LastDot(id) + 1, Len(id))

C3_TwoPhase(fs, ss, id) ==
    IF id \in DOMAIN fs THEN Ptr(fs[id])
    ELSE IF \A i \in 1..Len(id) : id[i] # "." THEN Nil
    ELSE IF /\ C3_Head(id) \in DOMAIN ss
            /\ C3_Tail(id) \in DOMAIN mapMem[ss[C3_Head(id)].Methods]
    THEN Ptr(mapMem[ss[C3_Head(id)].Methods][C3_Tail(id)])
    ELSE Nil

\* C3 as claimed: every GetFunction(id) follows the rule, and consequently
\* GetFunction(<struct key>.<Method>) yields the method of every flattened
\* struct (read with the rule's own precedence: unless a flattened function
\* has that address), and GetFunction(<struct key>) yields nothing when no
\* function has that identifier.
C3_TwoPhaseResolution_AsClaimed ==
    Quiescent =>
        /\ \A id \in QueryIDs :
              GetFunctionResult(funcs, strucsts, id) = C3_TwoPhase(funcs, strucsts, id)
        /\ \A sk \in DOMAIN strucsts :
              /\ \A m \in MethodsOf(strucsts[sk]) :
                    sk \o sDot \o m.Name \notin DOMAIN funcs =>
                        GetFunctionResult(funcs, strucsts, sk \o sDot \o m.Name) = Ptr(m)
              /\ sk \notin DOMAIN funcs => GetFunctionResult(funcs, strucsts, sk) = Nil

\* The consequences that do hold: the method is what comes back when no
\* flattened function has the method's address, and a struct key yields
\* nothing when no function has it and it is not itself the address of a
\* method (its head a flattened struct that has a method named as its tail).
C3_Consequences ==
    Quiescent =>
        \A sk \in DOMAIN strucsts :
            /\ \A m \in MethodsOf(strucsts[sk]) :
                  sk \o sDot \o m.Name \notin DOMAIN funcs =>
                      GetFunctionResult(funcs, strucsts, sk \o sDot \o m.Name) = Ptr(m)
            /\ (/\ sk \notin DOMAIN funcs
                /\ ~(/\ C3_Head(sk) \in DOMAIN strucsts
                     /\ C3_Tail(sk) \in DOMAIN mapMem[strucsts[C3_Head(sk)].Methods]))
                  => GetFunctionResult(funcs, strucsts, sk) = Nil

C3_Step ==
    /\ \A t \in Threads :
          (pc[t] \in {"gf_p1", "gf_p2"} /\ pc'[t] = "idle") =>
              res'[t] = C3_TwoPhase(funcs, strucsts, arg[t])
    /\ (\E t \in Threads : RegisterRunning(t) /\ pc'[t] # pc[t]) => C3_Consequences'

\* C3 as amended: every GetFunction call returns what the two-phase rule
\* gives on the maps it ran on, and after every step of a Register (the only
\* steps that change the maps) the two consequences hold in the qualified
\* form above.
C3_TwoPhaseResolution == [][C3_Step]_vars

\* GetFunction("a.b.f") has returned the function f of package "a.b" although
\* "a.b" is also the struct b of package "a", which has a method f.
C3_Witness ==
    /\ sAB \in DOMAIN strucsts
    /\ sF \in DOMAIN mapMem[strucsts[sAB].Methods]
    /\ \E t \in Threads :
          pc[t] = "idle" /\ res[t] = Ptr(MkFunction(sF, "ab.f", NilRef, NilRef))

\* C4 (re-registration replaces the derived entries), as claimed: the
\* flattened maps hold exactly the entries derived from the packages now in
\* the package map, so a name dropped by a re-registration is found neither
\* by GetFunction nor by GetStruct, nor its methods through the fallback.
C4_FuncKeys ==
    UNION {{FuncKey(pkgs[e], fn) : fn \in FunctionsOf(pkgs[e])} : e \in DOMAIN pkgs}

C4_StructKeys ==
    UNION {{StructKey(pkgs[e], st) : st \in StructsOf(pkgs[e])} : e \in DOMAIN pkgs}

C4_ReRegistrationReplaces ==
    Quiescent =>
        /\ DOMAIN funcs = C4_FuncKeys
        /\ DOMAIN strucsts = C4_StructKeys
        /\ \A id \in QueryIDs :
              /\ GetStructRead(strucsts, id).kind = "ptr" => id \in C4_StructKeys
              /\ GetFunctionResult(funcs, strucsts, id).kind = "ptr" =>
                    \/ id \in C4_FuncKeys
                    \/ \E sk \in C4_StructKeys : \E m \in MethodsOf(strucsts[sk]) :
                          id = sk \o sDot \o m.Name

\* C5 (copy semantics), as claimed: nothing a caller does to a value it got
\* from GetPackage, GetStruct or GetFunction, or to the Package it handed to
\* Register, changes what any lookup returns afterwards.
C5_DeepResult(r) ==
    IF r.kind # "ptr" THEN r
    ELSE IF "Functions" \in DOMAIN r.val THEN Ptr(DeepPackage(r.val))
    ELSE IF "Methods" \in DOMAIN r.val THEN Ptr(DeepStruct(r.val))
    ELSE Ptr(DeepFunction(r.val))

C5_Lookups ==
    [id \in QueryIDs |->
        <<C5_DeepResult(GetPackageRead(pkgs, id)),
          C5_DeepResult(GetStructRead(strucsts, id)),
          C5_DeepResult(GetFunctionResult(funcs, strucsts, id))>>]

C5_CopyStep == (\E t \in Threads : Mutate(t)) => C5_Lookups' = C5_Lookups

C5_CopySemantics == [][C5_CopyStep]_vars

\* C6 (no operation blocks indefinitely), as claimed.  A call returns only
\* through the steps of the calls in progress, so if every call eventually
\* returns then in every reachable state where calls are in progress at
\* least one of them can take a step; a state where none can is one whose
\* calls never return.
C6_NoCallBlocksForever ==
    (\E t \in Threads : InCall(t)) => (\E t \in Threads : ENABLED Step(t))

\* C7 (Register is atomic for readers): while any goroutine holds the read
\* lock (a lookup between its RLock and its return, both phases of a
\* GetFunction fallback included) no Register has written part of its update
\* and no step changes any of the three maps.
C7_AtomicStep ==
    (\E t \in Threads : ReaderHolds(t)) => (Quiescent /\ registry' = registry)

C7_RegisterAtomic == [][C7_AtomicStep]_vars

\* A GetFunction is in its second phase on a non-empty registry while a
\* Register waits for the readers to drain.
C7_Witness ==
    /\ pkgs # <<>>
    /\ \E r \in Threads : \E w \in Threads : pc[r] = "gf_p2" /\ pc[w] = "reg_rwait"

\* C8 (concurrent registration loses nothing): once every Register call has
\* returned, if the packages registered have pairwise distinct effective
\* identifiers then for each of them GetPackage yields it, with its own Name
\* and Functions, and GetFunction(id.<name>) yields each of its functions.
C8_DistinctIDs ==
    \A p \in started : \A q \in started : ClaimedID(p) = ClaimedID(q) => p = q

C8_NothingLost ==
    ((\A t \in Threads : ~RegisterRunning(t)) /\ C8_DistinctIDs) =>
        \A p \in started :
            /\ GetPackageRead(pkgs, ClaimedID(p)) = Ptr(p)
            /\ DeepPackage(pkgs[ClaimedID(p)]).Name = p.Name
            /\ DeepPackage(pkgs[ClaimedID(p)]).Functions = DeepFunctions(p.Functions)
            /\ \A fn \in FunctionsOf(p) :
                  GetFunctionResult(funcs, strucsts, FuncKey(p, fn)) = Ptr(fn)

\* Two packages with distinct effective identifiers, each with a function,
\* were registered, every call has returned, and a lookup has found something.
C8_Witness ==
    /\ nregs = 2
    /\ Cardinality(started) = 2
    /\ C8_DistinctIDs
    /\ \A p \in started : FunctionsOf(p) # {}
    /\ \A t \in Threads : pc[t] = "idle"
    /\ \E t \in Threads : res[t].kind = "ptr"

\* C9 (missing lookups never fault): a GetPackage, GetStruct or GetFunction
\* for an identifier that no registered package gave to a package, a struct,
\* or a function or method, returns nil; no lookup panics and none changes
\* the maps or the documentation values.
C9_NeverPackage(id) == \A q \in started : ClaimedID(q) # id

C9_NeverStruct(id) == \A q \in started : \A st \in StructsOf(q) : StructKey(q, st) # id

C9_MissingStep ==
    \A t \in Threads :
        /\ (pc[t] = "gp_read" /\ pc'[t] = "idle" /\ C9_NeverPackage(arg[t])) => res'[t] = Nil
        /\ (pc[t] = "gs_read" /\ pc'[t] = "idle" /\ C9_NeverStruct(arg[t])) => res'[t] = Nil
        /\ (pc[t] \in {"gf_p1", "gf_p2"} /\ pc'[t] = "idle" /\ ~AddressTaken(arg[t]))
              => res'[t] = Nil
        /\ (pc[t] \in {"gp_read", "gs_read", "gf_p1", "gf_p2"} /\ pc'[t] # pc[t]) =>
              /\ res'[t].kind # "panic"
              /\ registry' = registry
              /\ mapMem' = mapMem
              /\ arrMem' = arrMem

C9_MissingNeverFaults == [][C9_MissingStep]_vars

\* On the empty registry, GetFunction of an identifier that ends in "." is in
\* its fallback, and another lookup has already returned nil.
C9_Witness ==
    /\ pkgs = <<>>
    /\ started = {}
    /\ \E t \in Threads : \E u \in Threads :
          /\ pc[t] = "gf_p2"
          /\ arg[t] = sA \o sDot
          /\ pc[u] = "idle"
          /\ res[u] = Nil

\* C10 (failed extraction registers nothing): RegisterPath for a location
\* whose extraction fails returns an error at once: the call is over, and the
\* three maps and the set of registered packages are as before.
C10_FailedStep ==
    \A t \in Threads : \A loc \in Locations :
        (Fails(loc) /\ RegisterPath(t, loc)) =>
            /\ res'[t].kind = "err"
            /\ pc'[t] = "idle"
            /\ registry' = registry
            /\ started' = started

C10_FailedRegistersNothing == [][C10_FailedStep]_vars

\* RegisterPath has reported two packages at a location, on a registry that
\* already holds a package.
C10_Witness ==
    /\ pkgs # <<>>
    /\ \E t \in Threads : pc[t] = "idle" /\ res[t] = Err("multiple packages")

\* C11 (filter AND-semantics): whatever options were applied, in whatever
\* order and however often, filterFunc(f) is true exactly if every function
\* predicate those options appended is true of f, and filterStruct(s)
\* likewise for the struct predicates; a config with no options accepts
\* every entity; and applying the same options in another order gives the
\* same answers.
C11_FuncPreds(os) ==
    {os[i].fn : i \in {j \in DOMAIN os : os[j].opt = "FilterFuncs"}}
        \cup {ExportedPred : i \in {j \in DOMAIN os : os[j].opt = "Exported"}}
        \cup {WithDocPred : i \in {j \in DOMAIN os : os[j].opt = "WithDoc"}}

C11_StructPreds(os) ==
    {os[i].fn : i \in {j \in DOMAIN os : os[j].opt = "FilterStructs"}}
        \cup {ExportedPred : i \in {j \in DOMAIN os : os[j].opt = "Exported"}}
        \cup {WithDocPred : i \in {j \in DOMAIN os : os[j].opt = "WithDoc"}}

C11_Reorderings(os) ==
    {[i \in DOMAIN os |-> os[p[i]]] :
        p \in {q \in [DOMAIN os -> DOMAIN os] : \A i, j \in DOMAIN os : q[i] = q[j] => i = j}}

\* The chain conf, built by the options opts, on every entity.
C11_Chain ==
    /\ \A fn \in FuncEntities :
          /\ filterFunc(conf, fn) = (\A f \in C11_FuncPreds(opts) : Pred(f, fn))
          /\ opts = <<>> => filterFunc(conf, fn)
          /\ \A os \in C11_Reorderings(opts) :
                filterFunc(ConfigOf(os), fn) = filterFunc(conf, fn)
    /\ \A st \in StructEntities :
          /\ filterStruct(conf, st) = (\A f \in C11_StructPreds(opts) : Pred(f, st))
          /\ opts = <<>> => filterStruct(conf, st)
          /\ \A os \in C11_Reorderings(opts) :
                filterStruct(ConfigOf(os), st) = filterStruct(conf, st)

\* The chain is looked at when the options have been applied (conf and opts
\* do not change with a filter call or with extraction), and every answer a
\* filter call gave is the conjunction of the predicates.
C11_AndSemantics ==
    /\ (probe = None /\ pkgdoc = None) => C11_Chain
    /\ probe.kind = "func" =>
          /\ opts = probe.opts
          /\ probe.result = (\A f \in C11_FuncPreds(probe.opts) : Pred(f, probe.entity))
    /\ probe.kind = "struct" =>
          /\ opts = probe.opts
          /\ probe.result = (\A f \in C11_StructPreds(probe.opts) : Pred(f, probe.entity))

\* The second of two predicates rejects what the first accepts.
C11_Witness ==
    /\ probe.kind = "func"
    /\ probe.opts = <<OptWithDoc, OptExported>>
    /\ probe.entity.Name = sF
    /\ probe.entity.Doc = <<"d">>
    /\ probe.result = FALSE

\* C12 (doc filter), as claimed: with only WithDoc() applied, filterFunc(f)
\* and filterStruct(s) are true exactly if the entity's Doc is non-empty
\* after trimming white space, for an entity handed to the filter directly
\* and for the entities extraction builds.
C12_OnlyWithDoc(os) == os # <<>> /\ \A i \in DOMAIN os : os[i] = OptWithDoc

C12_Extracted ==
    (out # None /\ C12_OnlyWithDoc(opts)) =>
        /\ \A i \in DOMAIN pkgdoc.Funcs :
              (pkgdoc.Funcs[i].Name \in DOMAIN out.val.Functions)
                  = (TrimSpace(pkgdoc.Funcs[i].Doc) # <<>>)
        /\ \A i \in DOMAIN pkgdoc.Types :
              pkgdoc.Types[i].IsStruct =>
                  ((pkgdoc.Types[i].Name \in DOMAIN out.val.Structs)
                      = (TrimSpace(pkgdoc.Types[i].Doc) # <<>>))

C12_DocFilter ==
    /\ (probe # None /\ C12_OnlyWithDoc(probe.opts)) =>
          probe.result = (TrimSpace(probe.entity.Doc) # <<>>)
    /\ C12_Extracted

\* C13 (exported filter): with only Exported() applied, filterFunc(f) and
\* filterStruct(s) are true exactly if the first character of the Name is an
\* upper-case letter; a Name that starts with a lower-case letter, a digit or
\* an underscore, and the empty Name, are rejected; two entities with the
\* same Name get the same answer whatever their other fields.
C13_OnlyExported(os) == os # <<>> /\ \A i \in DOMAIN os : os[i] = OptExported

C13_UpperCaseLetters == {"F", "G", "H", "K", "M", "N", "T"}

C13_StartsUpper(name) == name # <<>> /\ name[1] \in C13_UpperCaseLetters

C13_ExportedFilter ==
    /\ C13_OnlyExported(opts) =>
          /\ \A fn \in FuncEntities :
                /\ filterFunc(conf, fn) = C13_StartsUpper(fn.Name)
                /\ \A gn \in FuncEntities :
                      gn.Name = fn.Name => filterFunc(conf, gn) = filterFunc(conf, fn)
          /\ \A st \in StructEntities :
                /\ filterStruct(conf, st) = C13_StartsUpper(st.Name)
                /\ \A su \in StructEntities :
                      su.Name = st.Name => filterStruct(conf, su) = filterStruct(conf, st)
          /\ \A e \in FuncEntities \cup StructEntities :
                e.Name \in {<<>>, sF, <<"_", "F">>, <<"1", "F">>} =>
                    ~filterLoop(conf.funcFilter, 1, e) /\ ~filterLoop(conf.structFilter, 1, e)
    /\ (probe # None /\ C13_OnlyExported(probe.opts)) =>
          probe.result = C13_StartsUpper(probe.entity.Name)
    /\ (out # None /\ C13_OnlyExported(opts)) =>
          /\ \A i \in DOMAIN pkgdoc.Funcs :
                (pkgdoc.Funcs[i].Name \in DOMAIN out.val.Functions)
                    = C13_StartsUpper(pkgdoc.Funcs[i].Name)
          /\ \A k \in DOMAIN out.val.Structs : C13_StartsUpper(k)

\* An underscore followed by an upper-case letter is rejected, and an
\* upper-case Name with an empty Doc accepted.
C13_Witness ==
    /\ C13_OnlyExported(opts)
    /\ Len(opts) = 2
    /\ probe.kind = "struct"
    /\ probe.opts = opts
    /\ probe.entity.Name = <<"_", "F">>
    /\ probe.result = FALSE
    /\ filterFunc(conf, GenFunction(<<"N">>, <<>>, <<>>, <<>>))

\* C14 (field documentation omission): in every Struct extraction produces,
\* a field name is a key of Fields exactly if the field's leading doc text
\* or its trailing comment text is non-empty once trimmed; the Field stored
\* holds the two trimmed texts, so the empty string for the one that is
\* missing; and all names of one declaration get the same doc and comment.
C14_HasText(raw) == \E i \in DOMAIN raw : raw[i] \notin {" ", "\n", "\t"}

C14_Decls(typ, n) ==
    {i \in DOMAIN typ.Fields : \E j \in DOMAIN typ.Fields[i].Names : typ.Fields[i].Names[j] = n}

C14_Struct(typ, st) ==
    /\ \A n \in {sX, sY} :
          /\ (n \in DOMAIN st.Fields)
                = (\E i \in C14_Decls(typ, n) :
                      C14_HasText(typ.Fields[i].Doc) \/ C14_HasText(typ.Fields[i].Comment))
          /\ n \in DOMAIN st.Fields =>
                \A i \in C14_Decls(typ, n) :
                   /\ st.Fields[n].Doc = TrimSpace(typ.Fields[i].Doc)
                   /\ st.Fields[n].Comment = TrimSpace(typ.Fields[i].Comment)
                   /\ ~C14_HasText(typ.Fields[i].Doc) => st.Fields[n].Doc = <<>>
                   /\ ~C14_HasText(typ.Fields[i].Comment) => st.Fields[n].Comment = <<>>
    /\ DOMAIN st.Fields \subseteq {sX, sY}
    /\ \A i \in DOMAIN typ.Fields :
          \A j, k \in DOMAIN typ.Fields[i].Names :
             /\ (typ.Fields[i].Names[j] \in DOMAIN st.Fields)
                   = (typ.Fields[i].Names[k] \in DOMAIN st.Fields)
             /\ typ.Fields[i].Names[j] \in DOMAIN st.Fields =>
                   /\ st.Fields[typ.Fields[i].Names[j]].Doc = st.Fields[typ.Fields[i].Names[k]].Doc
                   /\ st.Fields[typ.Fields[i].Names[j]].Comment
                         = st.Fields[typ.Fields[i].Names[k]].Comment

C14_FieldOmission ==
    out # None =>
        \A i \in DOMAIN pkgdoc.Types :
            pkgdoc.Types[i].Name \in DOMAIN out.val.Structs =>
                C14_Struct(pkgdoc.Types[i], out.val.Structs[pkgdoc.Types[i].Name])

\* A declaration of two names with a white-space doc and a trailing comment:
\* both names are keys, with an empty Doc.
C14_Witness ==
    /\ out # None
    /\ <<"T">> \in DOMAIN out.val.Structs
    /\ pkgdoc.Types[1].Fields = <<DocField(<<sX, sY>>, <<" ">>, <<" ", "d", "\n">>)>>
    /\ DOMAIN out.val.Structs[<<"T">>].Fields = {sX, sY}
    /\ out.val.Structs[<<"T">>].Fields[sY].Doc = <<>>
    /\ out.val.Structs[<<"T">>].Fields[sY].Comment = <<"d">>

\* C15 (type-associated functions are governed by the function filter only):
\* for every struct type of the source and every function go/doc groups
\* under it, the function is in Package.Functions exactly if it passes the
\* function filter chain, whether or not the type's Struct passes the struct
\* filter chain; a struct the struct filter rejects is not in Structs.
C15_Passes(os, fn) == \A f \in C11_FuncPreds(os) : Pred(f, fn)

C15_StructPasses(os, st) == \A f \in C11_StructPreds(os) : Pred(f, st)

C15_Entity(dfn) == [Name |-> dfn.Name, Doc |-> TrimSpace(dfn.Doc)]

C15_TypeFunctions ==
    out # None =>
        \A i \in DOMAIN pkgdoc.Types :
            pkgdoc.Types[i].IsStruct =>
                /\ \A j \in DOMAIN pkgdoc.Types[i].Funcs :
                      /\ (pkgdoc.Types[i].Funcs[j].Name \in DOMAIN out.val.Functions)
                            = C15_Passes(opts, C15_Entity(pkgdoc.Types[i].Funcs[j]))
                      /\ pkgdoc.Types[i].Funcs[j].Name \in DOMAIN out.val.Functions =>
                            out.val.Functions[pkgdoc.Types[i].Funcs[j].Name]
                                = getFunc(pkgdoc.Types[i].Funcs[j])
                /\ (pkgdoc.Types[i].Name \in DOMAIN out.val.Structs)
                      = C15_StructPasses(opts, C15_Entity(pkgdoc.Types[i]))

\* The struct filter rejects T, whose constructor N the function filter
\* (Exported) accepts and whose n it rejects.
C15_Witness ==
    /\ out # None
    /\ opts = <<OptFilterStructs(Reject), OptExported>>
    /\ <<"T">> \notin DOMAIN out.val.Structs
    /\ <<"N">> \in DOMAIN out.val.Functions
    /\ <<"n">> \notin DOMAIN out.val.Functions

\* C16 (index completeness): after any Register calls of packages whose
\* Functions and Structs are keyed by the entity's own Name and whose local
\* names hold no ".", whenever a lookup can run, for every identifier E with
\* a package P in the package map, GetFunction(E.<f.Name>) yields f for every
\* function f of P and GetStruct(E.<s.Name>) yields s for every struct s of
\* P; and a Register of a package with another effective identifier leaves
\* these entries as they are.
C16_WellKeyed(pkg) ==
    /\ \A k \in DOMAIN mapMem[pkg.Functions] :
          mapMem[pkg.Functions][k].Name = k /\ \A i \in DOMAIN k : k[i] # "."
    /\ \A k \in DOMAIN mapMem[pkg.Structs] :
          mapMem[pkg.Structs][k].Name = k /\ \A i \in DOMAIN k : k[i] # "."

C16_Complete ==
    \A e \in DOMAIN pkgs :
        /\ \A fn \in FunctionsOf(pkgs[e]) :
              GetFunctionResult(funcs, strucsts, e \o sDot \o fn.Name) = Ptr(fn)
        /\ \A st \in StructsOf(pkgs[e]) :
              GetStructRead(strucsts, e \o sDot \o st.Name) = Ptr(st)

C16_NotOverwritten ==
    \A t \in Threads :
        MidUpdate(t) =>
            \A e \in DOMAIN pkgs \ {ClaimedID(arg[t].pkg)} :
                /\ \A fn \in FunctionsOf(pkgs[e]) :
                      e \o sDot \o fn.Name \in DOMAIN funcs =>
                          funcs'[e \o sDot \o fn.Name] = funcs[e \o sDot \o fn.Name]
                /\ \A st \in StructsOf(pkgs[e]) :
                      e \o sDot \o st.Name \in DOMAIN strucsts =>
                          strucsts'[e \o sDot \o st.Name] = strucsts[e \o sDot \o st.Name]

C16_Step ==
    (\A pkg \in started' : C16_WellKeyed(pkg)) =>
        /\ Quiescent' => C16_Complete'
        /\ C16_NotOverwritten

C16_IndexComplete == [][C16_Step]_vars

\* Packages "a" and "a.b" are both registered, and the function f of "a.b"
\* is returned although "a.b" is also a struct of "a" with a method f.
C16_Witness ==
    /\ DOMAIN pkgs = {sA, sAB}
    /\ pkgs[sAB] = P4
    /\ sAB \in DOMAIN strucsts
    /\ \A t \in Threads : pc[t] = "idle"
    /\ \E t \in Threads : res[t] = Ptr(mapMem[P4.Functions][sF])

\* C17 (no top-level function is lost by type grouping), as claimed: every
\* top-level function of the source that is not a method and passes the
\* function filter chain is in Package.Functions, among them a function
\* go/doc groups under a type that is not a struct type.
C17_TopLevelFuncs ==
    {pkgdoc.Funcs[i] : i \in DOMAIN pkgdoc.Funcs}
        \cup UNION {{pkgdoc.Types[i].Funcs[j] : j \in DOMAIN pkgdoc.Types[i].Funcs} :
                       i \in DOMAIN pkgdoc.Types}

C17_NoFunctionLost ==
    out # None =>
        \A g \in C17_TopLevelFuncs :
            C15_Passes(opts, C15_Entity(g)) =>
                /\ g.Name \in DOMAIN out.val.Functions
                /\ out.val.Functions[g.Name].Name = g.Name

\* C18 (extracted fields carry their name), as claimed: in every Struct
\* extraction produces, the Field stored under key k has Name k, as every
\* Function and Struct has the Name of the key it is stored under in
\* Functions, Methods and Structs.
C18_FieldsNamed ==
    out # None =>
        /\ \A k \in DOMAIN out.val.Functions : out.val.Functions[k].Name = k
        /\ \A k \in DOMAIN out.val.Structs :
              /\ out.val.Structs[k].Name = k
              /\ \A m \in DOMAIN out.val.Structs[k].Methods :
                    out.val.Structs[k].Methods[m].Name = m
              /\ \A n \in DOMAIN out.val.Structs[k].Fields :
                    out.val.Structs[k].Fields[n].Name = n

====
